---- MODULE Spec2Model ----
(***************************************************************************)
(* StoreWithCache of subsquid-labs/evm-logs-example: a read-through entity *)
(* cache, a registry of deferred loads and a write buffer that is flushed  *)
(* to the persistent store in foreign-key order.  The repository holds two *)
(* versions of the class; impl = 1 is the one with relation paths          *)
(* (part_000 lines 15-360), impl = 2 the older one (lines 375-678).        *)
(* Operations are issued one after another, so every public method is one  *)
(* atomic action; the store calls an operation makes are kept in calls.    *)
(***************************************************************************)
EXTENDS Integers, Sequences, FiniteSets, TLC

\* Bounds of the model.
MaxId == 2
MaxVal == 2
MaxOps == 4

Ids == 1..MaxId
Vals == 1..MaxVal

(***************************************************************************)
(* Values.  Every optional value is a record tagged by k.                  *)
(***************************************************************************)
NoEntry == [k |-> "unknown"]    \* Map.get(id) === undefined: never looked at
NullEntry == [k |-> "null"]     \* the explicit absent marker
NoBuf == [k |-> "none"]         \* id not in a write buffer
Absent == [k |-> "absent"]      \* relation property not in the entity object
NullRel == [k |-> "null"]       \* relation property set to null
Undef == [k |-> "undef"]        \* property of a cached object that is undefined
NoRow == [k |-> "none"]
NoRelation == [k |-> "none"]
Void == [k |-> "ok", val |-> [k |-> "void"], alias |-> FALSE]

Obj(e) == [k |-> "obj", e |-> e]
Ent(id, val, from) == [id |-> id, val |-> val, from |-> from]

\* The plain value of an entity object: what equality of two entities compares.
RECURSIVE Norm(_)
Norm(e) ==
    [id |-> e.id, val |-> e.val,
     from |-> IF e.from.k = "obj" THEN Obj(Norm(e.from.e)) ELSE Undef]

(***************************************************************************)
(* Schema metadata (em.connection.entityMetadatas): per entity type its    *)
(* foreign keys and its relation column `from` (none, or to-one).          *)
(***************************************************************************)
Meta(name, fks, rel) == [name |-> name, foreignKeys |-> fks, relation |-> rel]
ToOne(target) == [k |-> "toOne", target |-> target]

\* The schema main.ts uses: Transfer.from and Transfer.to reference Account.
RealSchema ==
    << Meta("Account", <<>>, NoRelation),
       Meta("Transfer", <<"Account", "Account">>, ToOne("Account")) >>

Names(md) == {md[i].name : i \in DOMAIN md}
MetaOf(md, T) == md[CHOOSE i \in DOMAIN md : md[i].name = T]

RECURSIVE Mentions(_, _)
Mentions(md, i) ==
    IF i > Len(md) THEN <<>>
    ELSE <<md[i].name>> \o md[i].foreignKeys \o Mentions(md, i + 1)

RECURSIVE Dedup(_, _)
Dedup(s, seen) ==
    IF s = <<>> THEN <<>>
    ELSE IF Head(s) \in seen THEN Dedup(Tail(s), seen)
    ELSE <<Head(s)>> \o Dedup(Tail(s), seen \cup {Head(s)})

\* graph.addNode / graph.addEdge: the nodes in the order they were first named.
GraphNodes(md) == Dedup(Mentions(md, 1), {})
Adjacent(md, n) == IF n \in Names(md) THEN MetaOf(md, n).foreignKeys ELSE <<>>

RECURSIVE DFSVisit(_, _, _)
RECURSIVE DFSVisitAll(_, _, _)
DFSVisit(md, node, st) ==
    IF node \in st.visited THEN st
    ELSE LET st1 == [visited |-> st.visited \cup {node}, nodeList |-> st.nodeList]
             st2 == DFSVisitAll(md, Adjacent(md, node), st1)
         IN [visited |-> st2.visited, nodeList |-> Append(st2.nodeList, node)]
DFSVisitAll(md, ns, st) ==
    IF ns = <<>> THEN st
    ELSE DFSVisitAll(md, Tail(ns), DFSVisit(md, Head(ns), st))

Reverse(s) == [i \in 1..Len(s) |-> s[Len(s) + 1 - i]]

\* graph.topologicalSort(): the reverse of the depth-first post-order.
TopologicalSort(md) ==
    Reverse(DFSVisitAll(md, GraphNodes(md), [visited |-> {}, nodeList |-> <<>>]).nodeList)

NoReverse(md) == TopologicalSort(md)
getTopologicalOrder(md) == Reverse(TopologicalSort(md))

\* A has a foreign key to B, directly or through a chain of foreign keys.
RECURSIVE ReachesIn(_, _, _, _)
ReachesIn(md, A, B, n) ==
    /\ n > 0
    /\ \E i \in DOMAIN Adjacent(md, A) :
          LET C == Adjacent(md, A)[i] IN C = B \/ ReachesIn(md, C, B, n - 1)
Reaches(md, A, B) == ReachesIn(md, A, B, Len(md))
Acyclic(md) == \A T \in Names(md) : ~Reaches(md, T, T)

(***************************************************************************)
(* Relation paths (FindOptionsRelations) over the relation keys of the     *)
(* schema: per key none (not in the object), a boolean, or a nested path.  *)
(***************************************************************************)
RelKeys == {"from", "to"}
NoKey == [k |-> "none"]
Flag(b) == [k |-> "bool", b |-> b]
EmptyPath == [key \in RelKeys |-> NoKey]
FromPath == [key \in RelKeys |-> IF key = "from" THEN Flag(TRUE) ELSE NoKey]
Truthy(value) == value.k = "obj" \/ (value.k = "bool" /\ value.b)

\* A merge in which the value of b replaces the value of a.
mergeOverwrites(a, b) ==
    [key \in RelKeys |-> IF b[key].k = "none" THEN a[key] ELSE b[key]]

RECURSIVE mergeRelataions(_, _)
mergeRelataions(a, b) ==
    [key \in RelKeys |->
        LET value == a[key]
            bValue == b[key]
        IN IF bValue.k = "none" THEN value
           ELSE IF bValue.k = "obj"
                THEN (IF value.k = "obj"
                      THEN [k |-> "obj", p |-> mergeRelataions(value.p, bValue.p)]
                      ELSE bValue)
           ELSE IF Truthy(value) THEN value ELSE bValue]

(***************************************************************************)
(* The persistent store (typeorm-store behind this.store): rows by type    *)
(* and id.  A bulk insert fails when one of its ids already has a row.     *)
(***************************************************************************)
RowOf(v) == [k |-> "row", val |-> v.val,
             fromId |-> IF v.from.k = "obj" THEN v.from.e.id ELSE 0]

StoreInsertFails(rows, T, vs) == \E v \in vs : rows[T][v.id].k = "row"
StoreWrite(rows, T, vs) ==
    [rows EXCEPT ![T] = [i \in DOMAIN rows[T] |->
        IF \E v \in vs : v.id = i
        THEN RowOf(CHOOSE v \in vs : v.id = i)
        ELSE rows[T][i]]]

\* The entity object the store builds from a row; a relation is populated
\* only when the relation path asks for it.
RECURSIVE LoadRow(_, _, _, _, _)
LoadRow(rows, md, T, id, path) ==
    LET row == rows[T][id]
        rel == MetaOf(md, T).relation
    IN Ent(id, row.val,
           IF rel.k = "toOne" /\ Truthy(path["from"])
           THEN (IF row.fromId /= 0 /\ rows[rel.target][row.fromId].k = "row"
                 THEN Obj(LoadRow(rows, md, rel.target, row.fromId, EmptyPath))
                 ELSE NullRel)
           ELSE Absent)

RECURSIVE SortedSeq(_)
SortedSeq(S) ==
    IF S = {} THEN <<>>
    ELSE LET m == CHOOSE x \in S : \A y \in S : x <= y
         IN <<m>> \o SortedSeq(S \ {m})

StoreFind(rows, md, T, ids, path) ==
    LET found == SortedSeq({i \in ids : rows[T][i].k = "row"})
    IN [j \in 1..Len(found) |-> LoadRow(rows, md, T, found[j], path)]

(***************************************************************************)
(* The state of one StoreWithCache, threaded through its methods as a      *)
(* record: cache (cacheMap), defer (deferMap / deferList), ins and ups     *)
(* (insertMap, upsertMap), rows (the store), given (the value passed by    *)
(* the most recent insert or upsert call for an id that is still pending), *)
(* calls (store calls issued so far), err (the exception thrown, or ""),   *)
(* res (the value returned).                                               *)
(***************************************************************************)
BufIds(buf) == {i \in DOMAIN buf : buf[i].k /= "none"}
Pending(s) == {T \in Names(s.md) : BufIds(s.ins[T]) \cup BufIds(s.ups[T]) /= {}}

Call(s, op, T, ents, ids, path, ok) ==
    [op |-> op, type |-> T, ents |-> ents, ids |-> ids, rel |-> path,
     pending |-> Pending(s), ok |-> ok]

Throw(s, why) == [s EXCEPT !.err = why]
Return(s, val, alias) == [s EXCEPT !.res = [k |-> "ok", val |-> val, alias |-> alias]]
NotFound == [k |-> "none"]

\* impl 1: the value of the cached object of (T, id), relations followed.
RECURSIVE ValueV1(_, _, _, _)
ValueV1(cm, md, T, id) ==
    LET o == cm[T][id]
    IN Ent(id, o.val,
           IF o.from.k = "ref"
           THEN Obj(ValueV1(cm, md, MetaOf(md, T).relation.target, o.from.id))
           ELSE Undef)

CachedValue(s, T, id) ==
    IF s.impl = 1 THEN ValueV1(s.cache, s.md, T, id) ELSE Norm(s.cache[T][id].e)

\* The value of a write-buffer entry: impl 1 buffers the cached object itself.
BufValue(s, buf, T, id) ==
    IF buf[T][id].k = "ref" THEN ValueV1(s.cache, s.md, T, id) ELSE Norm(buf[T][id].e)

EmptyDefer == [ids |-> {}, relations |-> EmptyPath]
NoOptions == [k |-> "none"]
WithRelations(p) == [k |-> "path", p |-> p]

(***************************************************************************)
(* flush: the same loop in both versions.                                  *)
(***************************************************************************)
\* `_insertList.clear()` without the bulk insert.
FlushInsertDrops(s, name) ==
    [s EXCEPT !.ins[name] = [i \in DOMAIN @ |-> NoBuf],
              !.given[name] = [i \in DOMAIN @ |-> NoBuf]]

\* The store rejects the fuse-th bulk write of an operation (0: none).
Burn(n) == IF n > 0 THEN n - 1 ELSE 0

\* A flush that clears the insert list also when the bulk insert failed.
FlushInsertAlwaysClears(s, name) ==
    LET ids == BufIds(s.ins[name])
        vs == {BufValue(s, s.ins, name, i) : i \in ids}
    IN IF ids = {} THEN s
       ELSE IF StoreInsertFails(s.rows, name, vs) \/ s.fuse = 1
       THEN Throw([s EXCEPT !.calls = Append(@, Call(s, "insert", name, vs, ids, EmptyPath, FALSE)),
                            !.ins[name] = [i \in DOMAIN @ |-> NoBuf],
                            !.given[name] = [i \in DOMAIN @ |-> IF i \in ids THEN NoBuf ELSE @[i]]],
                  "store")
       ELSE [s EXCEPT !.rows = StoreWrite(s.rows, name, vs),
                      !.calls = Append(@, Call(s, "insert", name, vs, ids, EmptyPath, TRUE)),
                      !.fuse = Burn(@),
                      !.ins[name] = [i \in DOMAIN @ |-> NoBuf],
                      !.given[name] = [i \in DOMAIN @ |-> IF i \in ids THEN NoBuf ELSE @[i]]]

\* store.insert([...entities]) for a non-empty list, then _insertList.clear();
\* when the store rejects the insert the exception leaves the list as it is.
FlushInsert(s, name) ==
    LET ids == BufIds(s.ins[name])
        vs == {BufValue(s, s.ins, name, i) : i \in ids}
    IN IF ids = {} THEN s
       ELSE IF StoreInsertFails(s.rows, name, vs) \/ s.fuse = 1
       THEN Throw([s EXCEPT !.calls = Append(@, Call(s, "insert", name, vs, ids, EmptyPath, FALSE))],
                  "store")
       ELSE [s EXCEPT !.rows = StoreWrite(s.rows, name, vs),
                      !.calls = Append(@, Call(s, "insert", name, vs, ids, EmptyPath, TRUE)),
                      !.fuse = Burn(@),
                      !.ins[name] = [i \in DOMAIN @ |-> NoBuf],
                      !.given[name] = [i \in DOMAIN @ |-> IF i \in ids THEN NoBuf ELSE @[i]]]

\* store.upsert([...entities]) for a non-empty list, then _upsertList.clear();
\* not reached when the insert threw.
FlushUpsert(s, name) ==
    LET ids == BufIds(s.ups[name])
        vs == {BufValue(s, s.ups, name, i) : i \in ids}
    IN IF s.err /= "" \/ ids = {} THEN s
       ELSE IF s.fuse = 1
       THEN Throw([s EXCEPT !.calls = Append(@, Call(s, "upsert", name, vs, ids, EmptyPath, FALSE))],
                  "store")
       ELSE [s EXCEPT !.rows = StoreWrite(s.rows, name, vs),
                      !.calls = Append(@, Call(s, "upsert", name, vs, ids, EmptyPath, TRUE)),
                      !.fuse = Burn(@),
                      !.ups[name] = [i \in DOMAIN @ |-> NoBuf],
                      !.given[name] = [i \in DOMAIN @ |-> IF i \in ids THEN NoBuf ELSE @[i]]]

\* A break that does not compare the names.
StopAtFirst(stop, name) == stop /= ""

\* A loop that never breaks: flush(T) as flush().
StopNever(stop, name) == FALSE

\* `if (entityClass && entityClass.name === name) break`; stop = "" is flush().
StopAt(stop, name) == stop /= "" /\ stop = name

\* One iteration of the loop over entityOrder, then the rest of the loop.
RECURSIVE FlushLoop(_, _, _, _)
FlushNext(s, order, i, stop) ==
    IF s.err /= "" \/ StopAt(stop, order[i]) THEN s
    ELSE FlushLoop(s, order, i + 1, stop)

FlushLoop(s, order, i, stop) ==
    IF i > Len(order) \/ s.err /= "" THEN s
    ELSE FlushNext(FlushUpsert(FlushInsert(s, order[i]), order[i]), order, i, stop)

flush(s, stop) == FlushLoop(s, getTopologicalOrder(s.md), 1, stop)

\* A read call made on the store.
LogRead(s, op, T, ids, path) ==
    [s EXCEPT !.calls = Append(@, Call(s, op, T, {}, ids, path, TRUE)), !.fuse = Burn(@)]

\* A read call the store rejects: the promise of the call is rejected.
ReadFails(s) == s.fuse = 1
FailRead(s, op, T, ids, path) ==
    Throw([s EXCEPT !.calls = Append(@, Call(s, op, T, {}, ids, path, FALSE))], "store")

\* find / findBy / findOne / findOneBy with `where id IN ids`: the entities
\* that get cached, and the value returned.
MergesDeferred(op) == op \in {"find", "findOne"}
IsOne(op) == op \in {"findOne", "findOneBy"}
Taken(op, res) == IF IsOne(op) /\ res /= <<>> THEN <<res[1]>> ELSE res
FindValue(op, res) ==
    IF IsOne(op)
    THEN (IF res = <<>> THEN NotFound ELSE Obj(Norm(res[1])))
    ELSE [k |-> "list", es |-> [j \in DOMAIN res |-> Norm(res[j])]]

(***************************************************************************)
(* impl 1 (part_000 lines 15-360).                                         *)
(***************************************************************************)
\* cache(entity): copy the columns into the cached object of (T, e.id), a new
\* object when there is none, caching a populated to-one relation first.
RECURSIVE cacheV1(_, _, _, _)
cacheV1(cm, md, T, e) ==
    LET old == cm[T][e.id]
        rel == MetaOf(md, T).relation
        hasRel == rel.k = "toOne" /\ e.from.k /= "absent"
        cm1 == IF hasRel /\ e.from.k = "obj"
               THEN cacheV1(cm, md, rel.target, e.from.e)
               ELSE cm
        oldFrom == IF old.k = "obj" THEN old.from ELSE Undef
        newFrom == IF hasRel
                   THEN (IF e.from.k = "obj" THEN [k |-> "ref", id |-> e.from.e.id] ELSE Undef)
                   ELSE oldFrom
    IN [cm1 EXCEPT ![T][e.id] = [k |-> "obj", val |-> e.val, from |-> newFrom]]

\* `assert(!relationMetadata.isOneToMany, ...)`, made for a relation column
\* whose property is in the entity.  metadata.columns holds the columns of the
\* table: the relation of a column is the to-one relation it is the join
\* column of, and a to-many property of the entity has no column.
isOneToMany(rel) == rel.k = "toMany"

RECURSIVE CacheAsserts(_, _, _)
CacheAsserts(md, T, e) ==
    LET rel == MetaOf(md, T).relation
    IN (rel.k /= "none" /\ e.from.k /= "absent")
          => /\ ~isOneToMany(rel)
             /\ e.from.k = "obj" => CacheAsserts(md, rel.target, e.from.e)

RECURSIVE cacheListV1(_, _, _, _)
cacheListV1(cm, md, T, es) ==
    IF es = <<>> THEN cm
    ELSE cacheListV1(cacheV1(cm, md, T, Head(es)), md, T, Tail(es))

\* options.relations of find / findOne: merged with the deferred relations.
FindPathV1(s, op, T, options) ==
    IF MergesDeferred(op)
    THEN (IF options.k = "path"
          THEN mergeRelataions(options.p, s.defer[T].relations)
          ELSE s.defer[T].relations)
    ELSE EmptyPath

\* `await this.cache(res); return res`.
FindDoneV1(s, op, T, res) ==
    Return([s EXCEPT !.cache = cacheListV1(@, s.md, T, Taken(op, res))], FindValue(op, res), FALSE)

FindWithV1(s, op, T, ids, path) ==
    FindDoneV1(LogRead(s, op, T, ids, path), op, T, StoreFind(s.rows, s.md, T, ids, path))

\* What find does once its flush is over.
FindFlushedV1(s, op, T, ids, options) ==
    IF s.err /= "" THEN s
    ELSE IF ReadFails(s) THEN FailRead(s, op, T, ids, FindPathV1(s, op, T, options))
    ELSE FindWithV1(s, op, T, ids, FindPathV1(s, op, T, options))

findV1(s, op, T, ids, options) == FindFlushedV1(flush(s, T), op, T, ids, options)

\* load: the deferred ids without a cache entry get the absent marker.
MarkDeferredV1(s, T) ==
    [s EXCEPT !.cache[T] = [i \in DOMAIN @ |->
        IF i \in s.defer[T].ids /\ @[i].k = "unknown" THEN NullEntry ELSE @[i]]]

FindDeferredV1(s, T) ==
    findV1(MarkDeferredV1(s, T), "find", T, s.defer[T].ids, WithRelations(s.defer[T].relations))

\* `this.deferMap.delete(entityClass.name)`, not reached when find threw.
LoadDoneV1(s, T) == IF s.err /= "" THEN s ELSE [s EXCEPT !.defer[T] = EmptyDefer]

\* load without `this.deferMap.delete(entityClass.name)`.
loadKeepsDeferred(s, T) == IF s.defer[T].ids = {} THEN s ELSE FindDeferredV1(s, T)

\* load that deletes the deferred data also when find threw.
loadAlwaysDeletes(s, T) ==
    IF s.defer[T].ids = {} THEN s ELSE [FindDeferredV1(s, T) EXCEPT !.defer[T] = EmptyDefer]

loadV1(s, T) == IF s.defer[T].ids = {} THEN s ELSE LoadDoneV1(FindDeferredV1(s, T), T)

ReturnCachedV1(s, T, id, alias) == Return(s, Obj(ValueV1(s.cache, s.md, T, id)), alias)

\* store.get(entityClass, id).then((v) => v && this.cache(v)) once the flush
\* is over: the object returned is the cached object.
GetFlushedV1(s, T, id) ==
    IF s.err /= "" THEN s
    ELSE IF ReadFails(s) THEN FailRead(s, "get", T, {id}, EmptyPath)
    ELSE IF s.rows[T][id].k = "row"
    THEN ReturnCachedV1([LogRead(s, "get", T, {id}, EmptyPath) EXCEPT
                            !.cache = cacheV1(@, s.md, T, LoadRow(s.rows, s.md, T, id, EmptyPath))],
                        T, id, TRUE)
    ELSE Return(LogRead(s, "get", T, {id}, EmptyPath), NotFound, FALSE)

getFromStoreV1(s, T, id) == GetFlushedV1(flush(s, T), T, id)

\* get without the cache lookup.
getAlwaysFromStore(s, T, id) == getFromStoreV1(loadV1(s, T), T, id)

\* What get(entityClass, id) does once load is over.
GetLoadedV1(s, T, id) ==
    IF s.err /= "" THEN s
    ELSE IF s.cache[T][id].k = "null" THEN Return(s, NotFound, FALSE)
    ELSE IF s.cache[T][id].k = "obj" THEN ReturnCachedV1(s, T, id, FALSE)
    ELSE getFromStoreV1(s, T, id)

getV1(s, T, id) == GetLoadedV1(loadV1(s, T), T, id)

\* The three asserts of insert.
AssertsOnlyInsertList(s, T, id) == s.ins[T][id].k = "none"
InsertAsserts(s, T, id) ==
    /\ s.ins[T][id].k = "none"
    /\ s.ups[T][id].k = "none"
    /\ s.cache[T][id].k /= "obj"

RECURSIVE insertV1(_, _, _, _)
insertV1(s, T, es, i) ==
    IF i > Len(es) \/ s.err /= "" THEN s
    ELSE IF ~InsertAsserts(s, T, es[i].id) \/ ~CacheAsserts(s.md, T, es[i]) THEN Throw(s, "assert")
    ELSE insertV1([s EXCEPT !.cache = cacheV1(@, s.md, T, es[i]),
                            !.ins[T][es[i].id] = [k |-> "ref"],
                            !.given[T][es[i].id] = Obj(Norm(es[i]))],
                  T, es, i + 1)

\* upsert that buffers the id in the upsert list whatever is pending.
BufferUpsertAlways(s, T, id) == [s EXCEPT !.ups[T][id] = [k |-> "ref"]]

\* `if (!_insertList.has(entity.id)) this.getUpsertList(...).add(entity.id)`
BufferUpsertV1(s, T, id) ==
    IF s.ins[T][id].k = "none" THEN [s EXCEPT !.ups[T][id] = [k |-> "ref"]] ELSE s

RECURSIVE upsertV1(_, _, _, _)
upsertV1(s, T, es, i) ==
    IF i > Len(es) \/ s.err /= "" THEN s
    ELSE IF ~CacheAsserts(s.md, T, es[i]) THEN Throw(s, "assert")
    ELSE upsertV1(BufferUpsertV1([s EXCEPT !.cache = cacheV1(@, s.md, T, es[i]),
                                           !.given[T][es[i].id] = Obj(Norm(es[i]))],
                                 T, es[i].id),
                  T, es, i + 1)

\* defer that reads the deferred ids at once.
deferLoads(s, T, id, relations) ==
    loadV1([s EXCEPT !.defer[T] =
               [ids |-> @.ids \cup {id},
                relations |-> IF relations.k = "path"
                              THEN mergeRelataions(@.relations, relations.p)
                              ELSE @.relations]],
           T)

deferV1(s, T, id, relations) ==
    [s EXCEPT !.defer[T] =
        [ids |-> @.ids \cup {id},
         relations |-> IF relations.k = "path"
                       THEN mergeRelataions(@.relations, relations.p)
                       ELSE @.relations]]

(***************************************************************************)
(* impl 2 (part_000 lines 375-678): the cache and the buffers hold the     *)
(* entity objects they were given.                                         *)
(***************************************************************************)
Undefer(s, T, id) == [s EXCEPT !.defer[T].ids = @ \ {id}]

RECURSIVE cacheV2(_, _, _)
cacheV2(s, T, e) ==
    LET s1 == [Undefer(s, T, e.id) EXCEPT !.cache[T][e.id] = Obj(e)]
        rel == MetaOf(s.md, T).relation
    IN IF rel.k = "toOne" /\ e.from.k = "obj"
       THEN cacheV2(s1, rel.target, e.from.e)
       ELSE s1

RECURSIVE cacheListV2(_, _, _)
cacheListV2(s, T, es) ==
    IF es = <<>> THEN s
    ELSE cacheListV2(cacheV2(s, T, Head(es)), T, Tail(es))

FindPathV2(op, options) ==
    IF options.k = "path" /\ MergesDeferred(op) THEN options.p ELSE EmptyPath

\* `.then((v) => this.cache(v))`: the objects returned are the cached objects.
FindDoneV2(s, op, T, res) ==
    Return(cacheListV2(s, T, Taken(op, res)), FindValue(op, res), res /= <<>>)

\* What find does once its flush is over.
FindFlushedV2(s, op, T, ids, path) ==
    IF s.err /= "" THEN s
    ELSE IF ReadFails(s) THEN FailRead(s, op, T, ids, path)
    ELSE FindDoneV2(LogRead(s, op, T, ids, path), op, T, StoreFind(s.rows, s.md, T, ids, path))

findV2(s, op, T, ids, options) == FindFlushedV2(flush(s, T), op, T, ids, FindPathV2(op, options))

\* load: the ids still in the list after the find get the absent marker, and
\* the list is cleared.
MarkLoadedV2(s, name) ==
    [s EXCEPT !.cache[name] = [j \in DOMAIN @ |->
                  IF j \in s.defer[name].ids /\ @[j].k = "unknown" THEN NullEntry ELSE @[j]],
              !.defer[name] = EmptyDefer]

\* load(): every type of deferList in turn; order is the Map's iteration order.
RECURSIVE loadV2(_, _, _)
LoadNextV2(s, order, i) ==
    IF s.err /= "" THEN s ELSE loadV2(MarkLoadedV2(s, order[i]), order, i + 1)

loadV2(s, order, i) ==
    IF i > Len(order) \/ s.err /= "" THEN s
    ELSE IF s.defer[order[i]].ids = {} THEN loadV2(s, order, i + 1)
    ELSE LoadNextV2(findV2(s, "find", order[i], s.defer[order[i]].ids, NoOptions), order, i)

GetFlushedV2(s, T, id) ==
    IF s.err /= "" THEN s
    ELSE IF ReadFails(s) THEN FailRead(s, "get", T, {id}, EmptyPath)
    ELSE IF s.rows[T][id].k = "row"
    THEN Return(cacheV2(LogRead(s, "get", T, {id}, EmptyPath), T,
                        LoadRow(s.rows, s.md, T, id, EmptyPath)),
                Obj(Norm(LoadRow(s.rows, s.md, T, id, EmptyPath))), TRUE)
    ELSE Return(LogRead(s, "get", T, {id}, EmptyPath), NotFound, FALSE)

getFromStoreV2(s, T, id) == GetFlushedV2(flush(s, T), T, id)

\* What get(entityClass, id) does once load is over.
GetLoadedV2(s, T, id) ==
    IF s.err /= "" THEN s
    ELSE IF s.cache[T][id].k = "null" THEN Return(s, NotFound, FALSE)
    ELSE IF s.cache[T][id].k = "obj" THEN Return(s, Obj(Norm(s.cache[T][id].e)), FALSE)
    ELSE getFromStoreV2(s, T, id)

getV2(s, T, id, order) == GetLoadedV2(loadV2(s, order, 1), T, id)

RECURSIVE insertV2(_, _, _, _)
insertV2(s, T, es, i) ==
    IF i > Len(es) \/ s.err /= "" THEN s
    ELSE LET e == es[i]
             s1 == Undefer(s, T, e.id)
         IN IF ~InsertAsserts(s1, T, e.id) THEN Throw(s1, "assert")
            ELSE insertV2([s1 EXCEPT !.ins[T][e.id] = Obj(e),
                                     !.cache[T][e.id] = Obj(e),
                                     !.given[T][e.id] = Obj(Norm(e))],
                          T, es, i + 1)

RECURSIVE upsertV2(_, _, _, _)
upsertV2(s, T, es, i) ==
    IF i > Len(es) THEN s
    ELSE LET e == es[i]
             s1 == Undefer(s, T, e.id)
             s2 == IF s1.ins[T][e.id].k = "none"
                   THEN [s1 EXCEPT !.ups[T][e.id] = Obj(e)]
                   ELSE s1
         IN upsertV2([s2 EXCEPT !.cache[T][e.id] = Obj(e),
                                !.given[T][e.id] = Obj(Norm(e))],
                     T, es, i + 1)

deferV2(s, T, id) ==
    IF s.cache[T][id].k = "unknown"
    THEN [s EXCEPT !.defer[T].ids = @ \cup {id}]
    ELSE s

\* count / countBy: a flush, then the store call.
CallFlushed(s, op, T, ids) ==
    IF s.err /= "" THEN s
    ELSE IF ReadFails(s) THEN FailRead(s, op, T, ids, EmptyPath)
    ELSE LogRead(s, op, T, ids, EmptyPath)
flushThenCall(s, op, T, ids) == CallFlushed(flush(s, T), op, T, ids)

(***************************************************************************)
(* The state machine.                                                      *)
(***************************************************************************)
VARIABLES
    impl,       \* which version of the class runs
    em,         \* the schema metadata
    cacheMap, deferMap, insertMap, upsertMap,
    db,         \* the rows of the persistent store
    given,      \* value passed by the latest insert / upsert of a pending id
    last,       \* the operation issued last, with its arguments
    ret,        \* what it returned, or the error it raised
    calls,      \* the store calls it issued, in order
    nops,       \* operations issued so far
    awaiting    \* the callers suspended in a store call, with where they resume

vars == <<impl, em, cacheMap, deferMap, insertMap, upsertMap, db, given, last, ret, calls, nops, awaiting>>

Op(op, T, es, ids, opt) == [op |-> op, type |-> T, es |-> es, ids |-> ids, opt |-> opt]

Fill(md, x) == [T \in Names(md) |-> [i \in Ids |-> x]]

\* Rows left by earlier batches.
InitialStores(md) ==
    { Fill(md, NoRow),
      [Fill(md, NoRow) EXCEPT !["Account"][1] = [k |-> "row", val |-> 1, fromId |-> 0],
                              !["Transfer"][1] = [k |-> "row", val |-> 1, fromId |-> 1]] }

InitWith(i, md, rows) ==
    /\ impl = i
    /\ em = md
    /\ cacheMap = Fill(md, NoEntry)
    /\ deferMap = [T \in Names(md) |-> EmptyDefer]
    /\ insertMap = Fill(md, NoBuf)
    /\ upsertMap = Fill(md, NoBuf)
    /\ db = rows
    /\ given = Fill(md, NoBuf)
    /\ last = Op("new", "", <<>>, {}, NoOptions)
    /\ ret = Void
    /\ calls = <<>>
    /\ nops = 0
    /\ awaiting = <<>>

Init == \E rows \in InitialStores(RealSchema) : InitWith(1, RealSchema, rows)
InitBoth == \E i \in {1, 2} : \E rows \in InitialStores(RealSchema) : InitWith(i, RealSchema, rows)

\* The object's state when an operation starts.
Self ==
    [impl |-> impl, md |-> em, cache |-> cacheMap, defer |-> deferMap,
     ins |-> insertMap, ups |-> upsertMap, rows |-> db, given |-> given,
     calls |-> <<>>, err |-> "", res |-> Void, fuse |-> 0]

\* The step of a caller: what it leaves in the object, and the callers that
\* are suspended when it ends.
Settle(op, s, aw) ==
    /\ nops < MaxOps
    /\ nops' = nops + 1
    /\ last' = op
    /\ cacheMap' = s.cache
    /\ deferMap' = s.defer
    /\ insertMap' = s.ins
    /\ upsertMap' = s.ups
    /\ db' = s.rows
    /\ given' = s.given
    /\ calls' = s.calls
    /\ ret' = IF s.err /= "" THEN [k |-> "error", val |-> [k |-> s.err], alias |-> FALSE] ELSE s.res
    /\ awaiting' = aw
    /\ UNCHANGED <<impl, em>>

\* An operation that runs to its end with no other caller in between.
Done(op, s) == Settle(op, s, awaiting)

Insert(T, es) ==
    Done(Op("insert", T, es, {es[i].id : i \in DOMAIN es}, NoOptions),
         IF impl = 1 THEN insertV1(Self, T, es, 1) ELSE insertV2(Self, T, es, 1))

Upsert(T, es) ==
    Done(Op("upsert", T, es, {es[i].id : i \in DOMAIN es}, NoOptions),
         IF impl = 1 THEN upsertV1(Self, T, es, 1) ELSE upsertV2(Self, T, es, 1))

\* remove that flushes the type before it throws.
RemoveFlushes(T, id) ==
    Done(Op("remove", T, <<>>, {id}, NoOptions), Throw(flush(Self, T), "not implemented"))

Remove(T, id) ==
    Done(Op("remove", T, <<>>, {id}, NoOptions), Throw(Self, "not implemented"))

Count(op, T) ==
    Done(Op(op, T, <<>>, {}, NoOptions), flushThenCall(Self, op, T, {}))

Find(op, T, ids, options) ==
    Done(Op(op, T, <<>>, ids, options),
         IF impl = 1 THEN findV1(Self, op, T, ids, options) ELSE findV2(Self, op, T, ids, options))

\* get(entityClass, id), also what resolving a DeferredValue runs.
Get(T, id, order) ==
    Done(Op("get", T, <<>>, {id}, NoOptions),
         IF impl = 1 THEN getV1(Self, T, id) ELSE getV2(Self, T, id, order))

GetByOptions(T, id) ==
    Done(Op("getByOptions", T, <<>>, {id}, NoOptions),
         IF impl = 1 THEN getFromStoreV1(Self, T, id) ELSE getFromStoreV2(Self, T, id))

Defer(T, id, relations) ==
    /\ impl = 2 => relations.k = "none"
    /\ Done(Op("defer", T, <<>>, {id}, relations),
            IF impl = 1 THEN deferV1(Self, T, id, relations) ELSE deferV2(Self, T, id))

Flush(stop) ==
    /\ impl = 2 => stop /= ""
    /\ Done(Op("flush", stop, <<>>, {}, NoOptions), flush(Self, stop))

\* A flush during which the store rejects the n-th bulk write (n = 0: none).
FlushFailing(stop, n) ==
    Done(Op("flush", stop, <<>>, {}, NoOptions), flush([Self EXCEPT !.fuse = n], stop))

\* A get during which the store rejects the n-th call it is given (n = 0: none).
GetFailing(T, id, order, n) ==
    Done(Op("get", T, <<>>, {id}, NoOptions),
         IF impl = 1 THEN getV1([Self EXCEPT !.fuse = n], T, id)
         ELSE getV2([Self EXCEPT !.fuse = n], T, id, order))

\* The caller assigns to a column of the object the last get returned.
SetVal(entry, v) ==
    IF impl = 1 THEN [entry EXCEPT !.val = v] ELSE [entry EXCEPT !.e.val = v]

Mutate(v) ==
    /\ nops < MaxOps
    /\ last.op = "get"
    /\ ret.k = "ok"
    /\ ret.val.k = "obj"
    /\ ret.val.e.val /= v
    /\ nops' = nops + 1
    /\ last' = Op("mutate", last.type, <<>>, last.ids, NoOptions)
    /\ ret' = [ret EXCEPT !.val.e.val = v]
    /\ cacheMap' = IF ret.alias
                   THEN [cacheMap EXCEPT ![last.type][ret.val.e.id] = SetVal(@, v)]
                   ELSE cacheMap
    /\ calls' = <<>>
    /\ UNCHANGED <<impl, em, deferMap, insertMap, upsertMap, db, given, awaiting>>

(***************************************************************************)
(* Inputs.                                                                 *)
(***************************************************************************)
TransferIds == {1}
IdsOf(T) == IF T = "Transfer" THEN TransferIds ELSE Ids

AccountEntities == {Ent(i, v, Absent) : i \in Ids, v \in Vals}
EmbeddedIds == {1}
TransferEntities ==
    {Ent(i, 1, f) : i \in TransferIds,
                    f \in {Absent, NullRel} \cup {Obj(Ent(a, v, Absent)) : a \in EmbeddedIds, v \in Vals}}
EntitiesOf(T) == IF T = "Transfer" THEN TransferEntities ELSE AccountEntities

\* insert(e), insert([e]) and insert([e1, e2]).
EntityLists(T) ==
    {<<e>> : e \in EntitiesOf(T)}
    \cup {p \in {<<a, b>> : a \in AccountEntities, b \in AccountEntities} :
             T = "Account" /\ p[1].val = 1 /\ p[2].val = 1}

OptionsOf(T) == IF T = "Transfer" THEN {NoOptions, WithRelations(FromPath)} ELSE {NoOptions}
Orders(md) == {o \in [1..Len(md) -> Names(md)] : \A i, j \in DOMAIN o : i /= j => o[i] /= o[j]}

Next ==
    \/ \E T \in Names(em) : \E es \in EntityLists(T) : Insert(T, es)
    \/ \E T \in Names(em) : \E es \in EntityLists(T) : Upsert(T, es)
    \/ \E T \in Names(em) : Remove(T, 1)
    \/ \E T \in Names(em) : \E op \in {"count", "countBy"} : Count(op, T)
    \/ \E T \in Names(em) : \E ids \in SUBSET IdsOf(T) \ {{}} : \E options \in OptionsOf(T) :
          Find("find", T, ids, options)
    \/ \E T \in Names(em) : Find("findBy", T, IdsOf(T), NoOptions)
    \/ \E T \in Names(em) : \E id \in IdsOf(T) : \E op \in {"findOne", "findOneBy"} :
          Find(op, T, {id}, NoOptions)
    \/ \E T \in Names(em) : \E id \in IdsOf(T) :
          \E order \in IF impl = 1 THEN {<<>>} ELSE Orders(em) : Get(T, id, order)
    \/ \E T \in Names(em) : \E id \in IdsOf(T) : GetByOptions(T, id)
    \/ \E T \in Names(em) : \E id \in IdsOf(T) : \E relations \in OptionsOf(T) : Defer(T, id, relations)
    \/ \E stop \in Names(em) \cup {""} : Flush(stop)
    \/ \E v \in Vals : Mutate(v)

Spec == Init /\ [][Next]_vars
SpecBoth == InitBoth /\ [][Next]_vars

(***************************************************************************)
(* Flush order over every acyclic schema of three entity types, in every   *)
(* order of entityMetadatas and of each type's foreign keys.               *)
(***************************************************************************)
TypeNames == {"Account", "Transfer", "Token"}
FkLists(T) ==
    {<<>>} \cup {<<A>> : A \in TypeNames \ {T}}
           \cup {p \in {<<A, B>> : A \in TypeNames \ {T}, B \in TypeNames \ {T}} : p[1] /= p[2]}
Schemas ==
    {md \in [1..3 -> {Meta(T, fks, NoRelation) : T \in TypeNames, fks \in UNION {FkLists(U) : U \in TypeNames}}] :
        /\ \A i \in 1..3 : md[i].foreignKeys \in FkLists(md[i].name)
        /\ \A i, j \in 1..3 : i /= j => md[i].name /= md[j].name
        /\ Acyclic(md)}

InitOrder == \E md \in Schemas : InitWith(1, md, Fill(md, NoRow))

NextOrder ==
    \/ \E T \in Names(em) : Insert(T, <<Ent(1, 1, Absent)>>)
    \/ \E T \in Names(em) : Upsert(T, <<Ent(2, 1, Absent)>>)
    \/ \E T \in Names(em) : Count("count", T)
    \/ \E stop \in Names(em) \cup {""} : Flush(stop)

SpecOrder == InitOrder /\ [][NextOrder]_vars

IsWrite(c) == c.op \in {"insert", "upsert"}

\* C1: in the store calls of any one operation (a flush, or a read that
\* flushes), every bulk insert / upsert call for a type B comes before every
\* bulk insert / upsert call for a type A that has a foreign key to B,
\* directly or through a chain of foreign keys.
C1_ForeignKeyOrder ==
    \A i, j \in DOMAIN calls :
        (IsWrite(calls[i]) /\ IsWrite(calls[j]) /\ Reaches(em, calls[j].type, calls[i].type))
            => i < j

\* A flush that wrote A and B where A reaches B only through a third type,
\* with an insert and an upsert call for B.
C1_Witness ==
    \E i, j, l \in DOMAIN calls :
        /\ calls[i].op = "insert" /\ calls[l].op = "upsert" /\ calls[l].type = calls[i].type
        /\ IsWrite(calls[j])
        /\ Reaches(em, calls[j].type, calls[i].type)
        /\ \A n \in DOMAIN Adjacent(em, calls[j].type) : Adjacent(em, calls[j].type)[n] /= calls[i].type
        /\ last.op = "flush"

(***************************************************************************)
(* Properties of the sequential use of one StoreWithCache.                 *)
(***************************************************************************)
IsRead(c) == c.op \in {"get", "find", "findBy", "findOne", "findOneBy", "count", "countBy"}
Reads(cs) == {i \in DOMAIN cs : IsRead(cs[i])}
Writes(cs) == {i \in DOMAIN cs : IsWrite(cs[i])}

\* The types up to and including T in the write order.
UpTo(md, T) ==
    LET order == getTopologicalOrder(md)
        at == CHOOSE i \in DOMAIN order : order[i] = T
    IN {order[i] : i \in 1..at}

IsPending(T, id) == insertMap[T][id].k /= "none" \/ upsertMap[T][id].k /= "none"

\* C2: whenever a read operation issues a query for type T, the insert and
\* upsert buffers of T and of every type before T in the write order are
\* empty at that moment.
C2_ReadsAfterFlush ==
    \A i \in Reads(calls) : calls[i].pending \cap UpTo(em, calls[i].type) = {}

\* A read of Transfer whose flush first wrote Account and then Transfer.
C2_Witness ==
    \E i, j, l \in DOMAIN calls :
        /\ i < j /\ j < l
        /\ IsWrite(calls[i]) /\ calls[i].type = "Account"
        /\ IsWrite(calls[j]) /\ calls[j].type = "Transfer"
        /\ IsRead(calls[l]) /\ calls[l].type = "Transfer"

\* The step is get(T, id) right after an accepted insert of type T that
\* held an entity with that id.
GetAfterInsert ==
    /\ last.op = "insert" /\ ret.k = "ok"
    /\ last'.op = "get" /\ last'.type = last.type /\ last'.ids \subseteq last.ids

InsertedEntity == last.es[CHOOSE i \in DOMAIN last.es : {last.es[i].id} = last'.ids]

ReturnsInsertedWithoutRead ==
    /\ ret'.k = "ok"
    /\ ret'.val = Obj(Norm(InsertedEntity))
    /\ Reads(calls') = {}

C4_RoundTrip ==
    [][(/\ last.op = "insert" /\ ret.k = "ok"
        /\ last'.op = "flush" /\ last'.type = "" /\ ret'.k = "ok")
        => /\ \A i \in DOMAIN last.es :
                db'[last.type][last.es[i].id] = RowOf(Norm(last.es[i]))
           /\ \A T \in Names(em) : \A id \in Ids :
                IsPending(T, id) =>
                    Cardinality({c \in Writes(calls') :
                        calls'[c].type = T /\ id \in calls'[c].ids}) = 1
           /\ \A T \in Names(em) : \A id \in Ids :
                insertMap'[T][id].k = "none" /\ upsertMap'[T][id].k = "none"]_vars

\* A flush() that wrote an inserted Transfer and a pending Account.
C4_Witness ==
    /\ last.op = "flush" /\ last.type = "" /\ ret.k = "ok"
    /\ \E i, j \in DOMAIN calls :
         /\ calls[i].type = "Account" /\ calls[j].type = "Transfer" /\ calls[j].op = "insert"
    /\ db["Transfer"][1].k = "row" /\ db["Transfer"][1].fromId = 1

\* An insert call is rejected when one of its ids is pending in the insert or
\* the upsert buffer, has a present cache entry, or comes twice in the call.
IsDuplicate(T, es) ==
    \E i \in DOMAIN es :
        \/ IsPending(T, es[i].id)
        \/ cacheMap[T][es[i].id].k = "obj"
        \/ \E j \in 1..(i - 1) : es[j].id = es[i].id

CachedNow(T, id) ==
    IF impl = 1 THEN ValueV1(cacheMap', em, T, id) ELSE Norm(cacheMap'[T][id].e)

\* C5: insert raises a contract violation exactly when it is a duplicate
\* insert, whatever the entity holds; an insert of ids whose cache entries are
\* unknown or the absent marker is accepted, and the entries become the
\* entities.
C5_DuplicateInsert ==
    [][last'.op = "insert"
        => /\ IsDuplicate(last'.type, last'.es) <=> ret' = [k |-> "error", val |-> [k |-> "assert"], alias |-> FALSE]
           /\ ~IsDuplicate(last'.type, last'.es)
                => \A i \in DOMAIN last'.es :
                     /\ cacheMap'[last'.type][last'.es[i].id].k = "obj"
                     /\ CachedNow(last'.type, last'.es[i].id) = Norm(last'.es[i])
                     /\ insertMap'[last'.type][last'.es[i].id].k /= "none"]_vars

\* An insert rejected because its id is pending in the upsert buffer.
C5_Witness ==
    /\ last.op = "insert" /\ ret.k = "error"
    /\ \E id \in last.ids : upsertMap[last.type][id].k /= "none"

\* C6: a flush sends each id pending in an upsert buffer once, with the value
\* of the latest upsert of that id, in the one bulk upsert call of its type.
C6_UpsertCoalesce ==
    [][(last'.op = "flush" /\ ret'.k = "ok")
        => \A T \in Names(em) : \A id \in Ids :
             (upsertMap[T][id].k /= "none" /\ upsertMap'[T][id].k = "none")
                => /\ Cardinality({c \in Writes(calls') :
                          calls'[c].op = "upsert" /\ calls'[c].type = T}) = 1
                   /\ \A c \in Writes(calls') :
                        (calls'[c].op = "upsert" /\ calls'[c].type = T)
                            => {v \in calls'[c].ents : v.id = id} = {given[T][id].e}]_vars

\* The step resolves a handle: a get of an id that is in the deferred set or
\* already has a cache entry.
ResolvesHandle ==
    /\ last'.op = "get"
    /\ \A id \in last'.ids :
         id \in deferMap[last'.type].ids \/ cacheMap[last'.type][id].k /= "unknown"

\* C7: defer adds its id to the type's deferred set; the first handle resolved
\* while the set is not empty issues exactly one store read, a bulk find for
\* exactly the deferred ids, with no per-id read, and leaves the set empty and
\* every one of those ids with a cache entry; a handle resolved while the set
\* is empty issues no store call.
C7_Batching ==
    [][/\ (ResolvesHandle /\ ret'.k = "ok" /\ deferMap[last'.type].ids /= {})
            => /\ Cardinality(Reads(calls')) = 1
               /\ \A c \in Reads(calls') :
                    /\ calls'[c].op = "find" /\ calls'[c].type = last'.type
                    /\ calls'[c].ids = deferMap[last'.type].ids
               /\ deferMap'[last'.type].ids = {}
               /\ \A id \in deferMap[last'.type].ids : cacheMap'[last'.type][id].k /= "unknown"
       /\ (ResolvesHandle /\ deferMap[last'.type].ids = {})
            => calls' = <<>>
       /\ last'.op = "defer"
            => deferMap'[last'.type].ids = deferMap[last'.type].ids \cup last'.ids]_vars

\* The first of two handles resolved: one find for both deferred ids.
C7_Witness ==
    /\ last.op = "get" /\ ret.k = "ok"
    /\ Cardinality(Reads(calls)) = 1
    /\ \E c \in Reads(calls) : calls[c].op = "find" /\ calls[c].ids = {1, 2}
    /\ deferMap[last.type].ids = {}

\* C8: resolving a deferred id with no row yields not-found, and resolving a
\* second defer of that id, its absence being cached, issues no store call.
C8_AbsenceCached ==
    [][(last.op = "defer" /\ last'.op = "get" /\ last'.type = last.type /\ last'.ids = last.ids)
        => \A id \in last.ids :
             /\ (/\ cacheMap[last.type][id].k = "unknown" /\ db[last.type][id].k = "none"
                 /\ ~IsPending(last.type, id) /\ ret'.k = "ok")
                    => ret'.val = NotFound
             /\ cacheMap[last.type][id].k = "null"
                    => (ret'.k = "ok" /\ ret'.val = NotFound /\ calls' = <<>>)]_vars

\* C9: a get of an id with no cache entry leaves a cache entry, the entity or
\* the absent marker, and the same get issued again makes no store call.
C9_NoSecondRead ==
    [][/\ (last'.op = "get" /\ ret'.k = "ok")
            => \A id \in last'.ids : cacheMap'[last'.type][id].k /= "unknown"
       /\ (last.op = "get" /\ ret.k = "ok" /\ last' = last)
            => calls' = <<>>]_vars

\* C10: assigning to the object a get returned changes neither the cache nor
\* the value a pending write will send.
C10_NoAliasing ==
    [][last'.op = "mutate"
        => /\ cacheMap' = cacheMap
           /\ \A T \in Names(em) : \A id \in Ids :
                cacheMap[T][id].k = "obj" =>
                    ValueV1(cacheMap', em, T, id) = ValueV1(cacheMap, em, T, id)]_vars

NoPending(bufs, T) == \A id \in Ids : bufs[T][id].k = "none"

\* C11: after any get(T, id) that returns, also one answered from the cache,
\* the insert and upsert buffers of T are empty.
C11_GetFlushes ==
    [][(last'.op = "get" /\ ret'.k = "ok")
        => (NoPending(insertMap', last'.type) /\ NoPending(upsertMap', last'.type))]_vars

\* C13: remove throws 'not implemented', makes no store call and leaves the
\* cache, the deferred registry, both write buffers and the store unchanged.
C13_RemoveNotImplemented ==
    [][last'.op = "remove"
        => /\ ret' = [k |-> "error", val |-> [k |-> "not implemented"], alias |-> FALSE]
           /\ calls' = <<>>
           /\ UNCHANGED <<cacheMap, deferMap, insertMap, upsertMap, db>>]_vars

\* A remove issued while writes are pending and ids are deferred.
C13_Witness ==
    /\ last.op = "remove" /\ ret.k = "error"
    /\ \E id \in Ids : insertMap[last.type][id].k /= "none"
    /\ \E T \in Names(em) : upsertMap[T] /= insertMap[T] /\ deferMap[T].ids /= {}

(***************************************************************************)
(* Flushes against a store that may reject any one bulk write.             *)
(***************************************************************************)
Fuses == 0..(2 * Len(RealSchema))

NextFail ==
    \/ \E T \in Names(em) : \E es \in EntityLists(T) : Insert(T, es)
    \/ \E T \in Names(em) : \E es \in EntityLists(T) : Upsert(T, es)
    \/ \E stop \in Names(em) \cup {""} : \E n \in Fuses : FlushFailing(stop, n)

SpecFail == Init /\ [][NextFail]_vars

OkWrites(cs) == {i \in DOMAIN cs : IsWrite(cs[i]) /\ cs[i].ok}
Position(md, T) == CHOOSE i \in DOMAIN getTopologicalOrder(md) : getTopologicalOrder(md)[i] = T
PendingValue(T, id) ==
    IF insertMap[T][id].k /= "none"
    THEN BufValue(Self, insertMap, T, id)
    ELSE BufValue(Self, upsertMap, T, id)

\* C12: when a bulk insert or upsert fails during a flush, the failed call
\* is the last store call of the flush and the store's error is what the
\* caller gets; the buffer whose write failed and the buffers of the later
\* types are unchanged, and every entity that was pending is either still
\* pending or was sent with its value in a successful bulk call; a later
\* flush() that succeeds sends every pending entity once and empties the
\* buffers.
C12_FlushFailure ==
    [][/\ (last'.op = "flush" /\ ret'.k = "error")
            => LET n == Len(calls')
                   F == calls'[n]
               IN /\ ret'.val.k = "store"
                  /\ n > 0 /\ IsWrite(F) /\ ~F.ok
                  /\ \A i \in 1..(n - 1) : calls'[i].ok
                  /\ upsertMap'[F.type] = upsertMap[F.type]
                  /\ F.op = "insert" => insertMap'[F.type] = insertMap[F.type]
                  /\ \A U \in Names(em) :
                        Position(em, U) > Position(em, F.type)
                            => insertMap'[U] = insertMap[U] /\ upsertMap'[U] = upsertMap[U]
                  /\ \A T \in Names(em) : \A id \in Ids :
                        IsPending(T, id) =>
                            \/ insertMap'[T][id] = insertMap[T][id] /\ upsertMap'[T][id] = upsertMap[T][id]
                            \/ \E c \in OkWrites(calls') :
                                  calls'[c].type = T /\ PendingValue(T, id) \in calls'[c].ents
       /\ (last'.op = "flush" /\ last'.type = "" /\ ret'.k = "ok")
            => /\ \A T \in Names(em) : \A id \in Ids :
                    IsPending(T, id) =>
                        Cardinality({c \in OkWrites(calls') :
                            calls'[c].type = T /\ PendingValue(T, id) \in calls'[c].ents}) = 1
               /\ \A T \in Names(em) : NoPending(insertMap', T) /\ NoPending(upsertMap', T)]_vars

\* A flush stopped by a failed bulk upsert of Account, after the bulk insert
\* of Account went through, with a Transfer still pending.
C12_Witness ==
    /\ last.op = "flush" /\ ret.k = "error"
    /\ Len(calls) = 2 /\ calls[1].op = "insert" /\ calls[1].ok
    /\ calls[2].op = "upsert" /\ ~calls[2].ok /\ calls[2].type = "Account"
    /\ \E id \in Ids : insertMap["Account"][id].k = "none" /\ upsertMap["Account"][id].k /= "none"
    /\ \E id \in Ids : insertMap["Transfer"][id].k /= "none"

(***************************************************************************)
(* Entities that carry a populated to-many property (an Account with its   *)
(* transfers): the record has the extra field many.                        *)
(***************************************************************************)
HasMany(e) == "many" \in DOMAIN e
WithMany(e, es) == [id |-> e.id, val |-> e.val, from |-> e.from, many |-> es]
ManyEntities == {WithMany(a, <<Ent(1, 1, Absent)>>) : a \in AccountEntities}

NextMany ==
    \/ \E e \in ManyEntities \cup AccountEntities : Insert("Account", <<e>>)
    \/ \E e \in ManyEntities \cup AccountEntities : Upsert("Account", <<e>>)
    \/ \E id \in Ids : Get("Account", id, <<>>)
    \/ Flush("")

SpecMany == Init /\ [][NextMany]_vars

\* C14: an insert or upsert of an entity that carries a populated to-many
\* property ends in an error, and no cache entry holds a to-many value.
C14_ToManyRejected ==
    [][/\ (last'.op \in {"insert", "upsert"} /\ \E i \in DOMAIN last'.es : HasMany(last'.es[i]))
            => ret'.k = "error"
       /\ \A T \in Names(em) : \A id \in Ids : ~HasMany(cacheMap'[T][id])]_vars

SentIn(cs, op, T, id) == {c \in DOMAIN cs : cs[c].op = op /\ cs[c].type = T /\ \E e \in cs[c].ents : e.id = id}

\* C15: no id is in the insert buffer and the upsert buffer of a type at
\* once; an upsert of an id that is pending insert leaves the id in the
\* insert buffer and not in the upsert buffer; the flush that drains such an
\* id sends it in a bulk insert and in no bulk upsert.
C15_OneBuffer ==
    [][\A T \in Names(em) : \A id \in Ids :
          /\ ~(insertMap'[T][id].k /= "none" /\ upsertMap'[T][id].k /= "none")
          /\ (last'.op = "upsert" /\ last'.type = T /\ id \in last'.ids /\ ret'.k = "ok"
                /\ insertMap[T][id].k /= "none")
                => insertMap'[T][id] = insertMap[T][id] /\ upsertMap'[T][id].k = "none"
          /\ insertMap[T][id].k /= "none"
                => /\ SentIn(calls', "upsert", T, id) = {}
                   /\ insertMap'[T][id].k = "none"
                        => Cardinality(SentIn(calls', "insert", T, id)) = 1]_vars

\* An upsert of an id that is pending insert has returned.
C15_Witness ==
    /\ last.op = "upsert" /\ ret.k = "ok"
    /\ \E id \in last.ids :
          /\ insertMap[last.type][id].k /= "none"
          /\ upsertMap[last.type][id].k = "none"
          /\ \E i \in DOMAIN last.es : last.es[i].id = id /\ last.es[i].val = 2

\* The cache and the write buffers after the step, as the operators read them.
After(cm) == [impl |-> impl, md |-> em, cache |-> cm]
BufferedAfter(cm, im, um, T, id) ==
    IF im[T][id].k /= "none" THEN BufValue(After(cm), im, T, id) ELSE BufValue(After(cm), um, T, id)

\* C16: after an insert or upsert, in either implementation, every id the
\* call has left pending has a present cache entry whose value equals the
\* value held in the write buffer.
C16_CacheEqualsBuffer ==
    [][(last'.op \in {"insert", "upsert"} /\ ret'.k = "ok")
        => \A id \in last'.ids :
             LET T == last'.type
             IN (insertMap'[T][id].k /= "none" \/ upsertMap'[T][id].k /= "none")
                  => /\ cacheMap'[T][id].k = "obj"
                     /\ CachedValue(After(cacheMap'), T, id)
                          = BufferedAfter(cacheMap', insertMap', upsertMap', T, id)]_vars

\* The types a flush(stop) drains: all of them for flush().
Drained(md, stop) == IF stop = "" THEN Names(md) ELSE UpTo(md, stop)
TypesWritten(cs) == {cs[c].type : c \in Writes(cs)}

\* C17: flush(T) leaves the buffers of the types after T in the flush order
\* unchanged and makes no store call for them; when it returns, the buffers
\* of the types up to and including T are empty and each of those types that
\* had pending writes was written; flush() does so for every type.
C17_FlushStopsAtType ==
    [][last'.op = "flush"
        => /\ \A U \in Names(em) \ Drained(em, last'.type) :
                /\ insertMap'[U] = insertMap[U] /\ upsertMap'[U] = upsertMap[U]
                /\ U \notin TypesWritten(calls')
           /\ ret'.k = "ok"
                => \A U \in Drained(em, last'.type) :
                      /\ NoPending(insertMap', U) /\ NoPending(upsertMap', U)
                      /\ (\E id \in Ids : IsPending(U, id)) => U \in TypesWritten(calls')]_vars

\* A flush(T) that wrote two types and left a third one pending.
C17_Witness ==
    /\ last.op = "flush" /\ last.type /= "" /\ ret.k = "ok"
    /\ Cardinality(TypesWritten(calls)) = 2
    /\ last.type \in TypesWritten(calls)
    /\ \E U \in Names(em) \ UpTo(em, last.type) : \E id \in Ids : IsPending(U, id)

\* C18: defer makes no store call and no flush, and leaves the cache, the
\* write buffers, the store and the deferred sets of the other types as they
\* were: it changes only the deferred set and the relation path of its type,
\* by the id and the relations given; the bulk read is made by the get that
\* resolves the handle.
C18_DeferOnlyRegisters ==
    [][/\ last'.op = "defer"
            => /\ ret'.k = "ok"
               /\ calls' = <<>>
               /\ UNCHANGED <<cacheMap, insertMap, upsertMap, db>>
               /\ \A U \in Names(em) \ {last'.type} : deferMap'[U] = deferMap[U]
               /\ deferMap'[last'.type].ids = deferMap[last'.type].ids \cup last'.ids
               /\ deferMap'[last'.type].relations =
                    IF last'.opt.k = "path"
                    THEN mergeRelataions(deferMap[last'.type].relations, last'.opt.p)
                    ELSE deferMap[last'.type].relations
       /\ (last.op = "defer" /\ last'.op = "get" /\ last'.type = last.type
            /\ last'.ids = last.ids /\ ret'.k = "ok")
            => \E c \in Reads(calls') :
                  /\ calls'[c].op = "find" /\ calls'[c].type = last.type
                  /\ calls'[c].ids = deferMap[last.type].ids
                  /\ calls'[c].rel = deferMap[last.type].relations]_vars

\* A Transfer deferred with its relation while writes are pending and another
\* type has deferred ids.
C18_Witness ==
    /\ last.op = "defer" /\ last.type = "Transfer" /\ last.opt.k = "path"
    /\ deferMap["Transfer"].relations /= EmptyPath
    /\ deferMap["Account"].ids /= {}
    /\ \E id \in Ids : IsPending("Account", id)
    /\ calls = <<>>

\* The step is a get of type T that ran the resolution of T's deferred ids.
Resolves(T) == last'.op = "get" /\ last'.type = T /\ deferMap[T].ids /= {} /\ ret'.k = "ok"

\* The store calls of the step that ask for the row of (T, id).
Queries(cs, T, id) == {c \in Reads(cs) : cs[c].type = T /\ id \in cs[c].ids}

\* C19: when the resolution of T's deferred ids completes, T's deferred set
\* is empty and every id that was in it has a cache entry, the entity when
\* the store has its row or it was cached, the absent marker otherwise; and
\* a get of an id whose cache entry is the absent marker makes no store call
\* that asks for that id.
C19_ResolutionCompletes ==
    [][\A T \in Names(em) :
          /\ Resolves(T)
                => /\ deferMap'[T].ids = {}
                   /\ \A id \in deferMap[T].ids :
                        /\ cacheMap'[T][id].k \in {"obj", "null"}
                        /\ (db'[T][id].k = "row" \/ cacheMap[T][id].k = "obj") => cacheMap'[T][id].k = "obj"
                        /\ (db'[T][id].k = "none" /\ cacheMap[T][id].k = "unknown") => cacheMap'[T][id].k = "null"
          /\ \A id \in Ids :
                (last'.op = "get" /\ last'.type = T /\ last'.ids = {id} /\ cacheMap[T][id].k = "null")
                    => Queries(calls', T, id) = {}]_vars

\* C20: defer of an id that has a cache entry leaves the deferred set of
\* its type as it was, and the get that resolves the handle makes no store
\* call.
C20_DeferOfCachedId ==
    [][\A T \in Names(em) : \A id \in Ids :
          /\ (last'.op = "defer" /\ last'.type = T /\ last'.ids = {id} /\ cacheMap[T][id].k /= "unknown")
                => deferMap'[T].ids = deferMap[T].ids
          /\ (/\ last.op = "defer" /\ last.type = T /\ last.ids = {id}
              /\ last'.op = "get" /\ last'.type = T /\ last'.ids = {id}
              /\ cacheMap[T][id].k /= "unknown" /\ deferMap[T].ids \subseteq {id})
                => calls' = <<>>]_vars

\* C26: an insert call rejected as a duplicate leaves the cache, the
\* deferred registry and both write buffers as they were before the call.
C26_RejectedInsertNoEffect ==
    [][(last'.op = "insert" /\ ret'.k = "error")
        => UNCHANGED <<cacheMap, deferMap, insertMap, upsertMap>>]_vars

(***************************************************************************)
(* Relation paths up to a nesting depth, given to defer.                   *)
(***************************************************************************)
MaxDepth == 1
MaxDefers == 2

RECURSIVE Paths(_)
Paths(d) ==
    LET flat == {NoKey, Flag(TRUE), Flag(FALSE)}
        values == IF d = 0 THEN flat ELSE flat \cup {[k |-> "obj", p |-> q] : q \in Paths(d - 1)}
    IN [RelKeys -> values]

NextMerge ==
    \/ \E id \in IdsOf("Transfer") : \E b \in Paths(MaxDepth) :
          nops < MaxDefers /\ Defer("Transfer", id, WithRelations(b))
    \/ \E id \in IdsOf("Transfer") : Get("Transfer", id, <<>>)

SpecMerge == Init /\ [][NextMerge]_vars

\* The relations a path requests, as the sequences of keys that lead to them.
RECURSIVE Requested(_)
Requested(p) ==
    UNION {IF Truthy(p[key])
           THEN {<<key>>} \cup (IF p[key].k = "obj"
                                THEN {<<key>> \o q : q \in Requested(p[key].p)}
                                ELSE {})
           ELSE {} : key \in RelKeys}

MergesExactly(a, b, m) ==
    /\ Requested(m) = Requested(a) \cup Requested(b)
    /\ \A key \in RelKeys :
          /\ b[key].k = "none" => m[key] = a[key]
          /\ a[key].k = "none" => m[key] = b[key]
          /\ (a[key].k = "obj" /\ b[key].k = "obj")
                => m[key] = [k |-> "obj", p |-> mergeRelataions(a[key].p, b[key].p)]
          /\ (a[key].k = "bool" /\ b[key].k = "bool") => m[key] = Flag(a[key].b \/ b[key].b)

\* C27: the merge of two relation paths requests exactly the relations
\* requested by one of them, keeps a key present on one side, merges keys
\* nested on both sides and ORs boolean flags; it is commutative and
\* idempotent; each defer merges its relations into the path of its type,
\* the bulk read of a resolution uses that path, and the resolution resets it.
C27_MergeRelations ==
    [][/\ (last'.op = "defer" /\ last'.opt.k = "path" /\ ret'.k = "ok")
            => LET a == deferMap[last'.type].relations
                   b == last'.opt.p
                   m == deferMap'[last'.type].relations
               IN /\ m = mergeRelataions(a, b)
                  /\ MergesExactly(a, b, m)
                  /\ mergeRelataions(b, a) = m
                  /\ mergeRelataions(m, m) = m
                  /\ mergeRelataions(b, b) = b
       /\ (last'.op = "get" /\ ret'.k = "ok" /\ deferMap[last'.type].ids /= {})
            => /\ \A c \in Reads(calls') :
                    calls'[c].op = "find" /\ calls'[c].rel = deferMap[last'.type].relations
               /\ Reads(calls') /= {}
               /\ deferMap'[last'.type].relations = EmptyPath]_vars

\* A path with a nested relation merged, by a second defer, into a path that
\* has the same key as a flag and another key nested.
C27_Witness ==
    /\ last.op = "defer" /\ last.opt.k = "path"
    /\ last.opt.p["from"].k = "obj" /\ last.opt.p["from"].p["to"] = Flag(TRUE)
    /\ last.opt.p["to"].k = "obj"
    /\ deferMap["Transfer"].relations["to"].k = "obj"
    /\ deferMap["Transfer"].relations["to"] /= last.opt.p["to"]
    /\ deferMap["Transfer"].relations /= last.opt.p
    /\ nops = MaxDefers

(***************************************************************************)
(* The batch handler of main.ts.  A batch is the list of its Transfer      *)
(* events; the handler wraps ctx.store in a new StoreWithCache, defers the *)
(* two accounts of every event, then resolves them, creates the missing    *)
(* ones and inserts the transfers.  Transfer.to is resolved like           *)
(* Transfer.from; the Transfer entity carries the relation `from`.         *)
(***************************************************************************)
Event(id, fromId, toId, amount) == [id |-> id, fromId |-> fromId, toId |-> toId, val |-> amount]
Events == {Event(i, f, o, v) : i \in Ids, f \in Ids, o \in Ids, v \in Vals}
Batches ==
    {<<>>} \cup {<<e>> : e \in Events}
           \cup {b \in {<<e, f>> : e \in Events, f \in Events} : b[1].id /= b[2].id /\ b[2].val = 1}

\* `store: new StoreWithCache(ctx.store)`; transfers is `let transfers: Transfer[] = []`.
NewStoreWithCache ==
    [impl |-> impl, md |-> em, cache |-> Fill(em, NoEntry),
     defer |-> [T \in Names(em) |-> EmptyDefer],
     ins |-> Fill(em, NoBuf), ups |-> Fill(em, NoBuf), rows |-> db, given |-> Fill(em, NoBuf),
     calls |-> <<>>, err |-> "", res |-> Void, fuse |-> 0, transfers |-> <<>>]

\* getTransfer for every log of the batch: defer(Account, from), defer(Account, to).
RECURSIVE getTransfer(_, _, _)
getTransfer(s, batch, i) ==
    IF i > Len(batch) THEN s
    ELSE getTransfer(deferV1(deferV1(s, "Account", batch[i].fromId, NoOptions),
                             "Account", batch[i].toId, NoOptions),
                     batch, i + 1)

\* `const acc = new Account({id}); await ctx.store.insert(acc); return acc`
NewAccount(id) == Ent(id, 1, Absent)
createAccount(s, id) ==
    Return(insertV1(s, "Account", <<NewAccount(id)>>, 1), Obj(NewAccount(id)), FALSE)

\* `let from = await t.from.get(); if (from == null) from = await createAccount(...)`
AccountGot(s, id) ==
    IF s.err /= "" THEN s
    ELSE IF s.res.val = NotFound THEN createAccount(s, id)
    ELSE s

ResolveAccount(s, id) == AccountGot(getV1(s, "Account", id), id)

\* `transfers.push(new Transfer({id, ..., from, to, amount}))`
AfterTo(s, t, from) ==
    IF s.err /= "" THEN s
    ELSE [s EXCEPT !.transfers = Append(@, Ent(t.id, t.val, Obj(from)))]

AfterFrom(s, t) ==
    IF s.err /= "" THEN s
    ELSE AfterTo(ResolveAccount(s, t.toId), t, s.res.val.e)

RECURSIVE TransfersLoop(_, _, _)
TransfersLoop(s, batch, i) ==
    IF i > Len(batch) \/ s.err /= "" THEN s
    ELSE TransfersLoop(AfterFrom(ResolveAccount(s, batch[i].fromId), batch[i]), batch, i + 1)

\* `await ctx.store.insert(transfers)`, the last statement of the handler.
InsertTransfers(s) ==
    IF s.err /= "" THEN s
    ELSE Return(insertV1(s, "Transfer", s.transfers, 1), [k |-> "void"], FALSE)

processTransfers(s, batch) == InsertTransfers(TransfersLoop(s, batch, 1))

Handler(batch) ==
    Done(Op("handler", "", batch, {batch[i].id : i \in DOMAIN batch}, NoOptions),
         processTransfers(getTransfer(NewStoreWithCache, batch, 1), batch))

NextHandler == \E batch \in Batches : Handler(batch)

SpecHandler == Init /\ [][NextHandler]_vars

\* C25: when the batch handler returns, the insert and upsert buffers of its
\* StoreWithCache are empty and every entity it inserted was sent to the
\* store in a bulk write.
C25_HandlerLeavesNothingPending ==
    [][(last'.op = "handler" /\ ret'.k = "ok")
        => /\ \A T \in Names(em) : NoPending(insertMap', T) /\ NoPending(upsertMap', T)
           /\ \A i \in DOMAIN last'.es : SentIn(calls', "insert", "Transfer", last'.es[i].id) /= {}]_vars

\* C24: an insert or upsert of entities of a type A leaves the pending
\* value of every (B, id) of another type B as it was, also when an entity
\* of the call embeds an object of type B with that id; and the value a
\* flush writes for a pending (B, id) is the value given by the most recent
\* insert or upsert call on B for that id.
C24_EmbeddedLeavesPending ==
    [][\A B \in Names(em) : \A id \in Ids :
          /\ (last'.op \in {"insert", "upsert"} /\ last'.type /= B /\ IsPending(B, id))
                => BufferedAfter(cacheMap', insertMap', upsertMap', B, id) = PendingValue(B, id)
          /\ (last'.op = "flush" /\ IsPending(B, id))
                => \A c \in OkWrites(calls') :
                      calls'[c].type = B
                          => \A v \in calls'[c].ents : v.id = id => v = given[B][id].e]_vars

(***************************************************************************)
(* Sequential use with store failures: the store may reject one of the     *)
(* calls made during a get or a flush.                                     *)
(***************************************************************************)
MaxCalls == 3

NextNotFound ==
    \/ \E T \in Names(em) : \E e \in EntitiesOf(T) : Insert(T, <<e>>)
    \/ \E T \in Names(em) : \E e \in EntitiesOf(T) : Upsert(T, <<e>>)
    \/ \E T \in Names(em) : \E id \in IdsOf(T) : Defer(T, id, NoOptions)
    \/ \E T \in Names(em) : \E id \in IdsOf(T) : \E n \in 0..MaxCalls :
          \E order \in IF impl = 1 THEN {<<>>} ELSE Orders(em) : GetFailing(T, id, order, n)
    \/ \E T \in Names(em) : Find("find", T, IdsOf(T), NoOptions)
    \/ \E stop \in Names(em) : \E n \in 0..MaxCalls : FlushFailing(stop, n)

SpecNotFound == InitBoth /\ [][NextNotFound]_vars

MaxAwaiting == 2

Idle == [k |-> "idle"]
Suspended == [k |-> "awaiting"]
Resumed(op) == IF op = "insert" THEN "flush.insert" ELSE "flush.upsert"
Without(aw, j) == [n \in 1..(Len(aw) - 1) |-> IF n < j THEN aw[n] ELSE aw[n + 1]]
Then(aw, at) == IF at.k = "idle" THEN aw ELSE Append(aw, at)

\* `await this.store.insert([...entities])` / `await this.store.upsert(...)`
\* of the i-th type of the order: the entities are read when the call is made.
WriteCall(s, buf, op, order, i, stop) ==
    [k |-> "call", op |-> op, type |-> order[i], i |-> i, stop |-> stop,
     ids |-> BufIds(buf[order[i]]),
     ents |-> {BufValue(s, buf, order[i], id) : id \in BufIds(buf[order[i]])}]

\* flush from the insert list (phase "insert") or the upsert list of the
\* i-th type on, up to its next store call: where it is suspended, or Idle
\* when it has ended.  An empty list is cleared with no store call.
RECURSIVE FlushRun(_, _, _, _, _)
FlushRun(s, order, i, phase, stop) ==
    IF i > Len(order) THEN Idle
    ELSE IF phase = "insert"
    THEN (IF BufIds(s.ins[order[i]]) /= {}
          THEN WriteCall(s, s.ins, "insert", order, i, stop)
          ELSE FlushRun(s, order, i, "upsert", stop))
    ELSE IF BufIds(s.ups[order[i]]) /= {}
    THEN WriteCall(s, s.ups, "upsert", order, i, stop)
    ELSE IF StopAt(stop, order[i]) THEN Idle
    ELSE FlushRun(s, order, i + 1, "insert", stop)

Issue(s, at) ==
    IF at.k = "idle" THEN s
    ELSE Return([s EXCEPT !.calls = Append(@, Call(s, at.op, at.type, at.ents, at.ids, EmptyPath, TRUE))],
                Suspended, FALSE)

\* flush(stop) up to its first store call.
FlushBegin(stop) ==
    /\ Len(awaiting) < MaxAwaiting
    /\ Settle(Op("flush", stop, <<>>, {}, NoOptions),
              Issue(Self, FlushRun(Self, getTopologicalOrder(em), 1, "insert", stop)),
              Then(awaiting, FlushRun(Self, getTopologicalOrder(em), 1, "insert", stop)))

\* The list is cleared when the caller resumes: `_insertList.clear()`,
\* `_upsertList.clear()`.
Cleared(s, c) ==
    IF c.op = "insert"
    THEN [s EXCEPT !.ins[c.type] = [i \in DOMAIN @ |-> NoBuf],
                   !.given[c.type] = [i \in DOMAIN @ |->
                        IF s.ups[c.type][i].k = "none" THEN NoBuf ELSE @[i]]]
    ELSE [s EXCEPT !.ups[c.type] = [i \in DOMAIN @ |-> NoBuf],
                   !.given[c.type] = [i \in DOMAIN @ |->
                        IF s.ins[c.type][i].k = "none" THEN NoBuf ELSE @[i]]]

\* The rest of the flush once the write of c is over.
FlushRest(s, c) ==
    IF c.op = "insert" THEN FlushRun(s, getTopologicalOrder(s.md), c.i, "upsert", c.stop)
    ELSE IF StopAt(c.stop, c.type) THEN Idle
    ELSE FlushRun(s, getTopologicalOrder(s.md), c.i + 1, "insert", c.stop)

Written(s, c) == Cleared([s EXCEPT !.rows = StoreWrite(s.rows, c.type, c.ents)], c)

\* The store answers the j-th suspended write; a rejected call throws in
\* the caller, which leaves flush.
FlushResume(j, accepted) ==
    /\ j \in DOMAIN awaiting
    /\ awaiting[j].op \in {"insert", "upsert"}
    /\ IF accepted /\ ~(awaiting[j].op = "insert" /\ StoreInsertFails(db, awaiting[j].type, awaiting[j].ents))
       THEN Settle(Op(Resumed(awaiting[j].op), awaiting[j].type, <<>>, awaiting[j].ids, NoOptions),
                   Issue(Written(Self, awaiting[j]), FlushRest(Written(Self, awaiting[j]), awaiting[j])),
                   Then(Without(awaiting, j), FlushRest(Written(Self, awaiting[j]), awaiting[j])))
       ELSE Settle(Op(Resumed(awaiting[j].op), awaiting[j].type, <<>>, awaiting[j].ids, NoOptions),
                   Throw(Self, "store"),
                   Without(awaiting, j))

NextFlushAsync ==
    \/ \E T \in Names(em) : \E e \in EntitiesOf(T) : Insert(T, <<e>>)
    \/ \E T \in Names(em) : \E e \in EntitiesOf(T) : Upsert(T, <<e>>)
    \/ \E stop \in Names(em) \cup {""} : FlushBegin(stop)
    \/ \E j \in 1..MaxAwaiting : \E accepted \in BOOLEAN : FlushResume(j, accepted)

SpecFlushAsync == Init /\ [][NextFlushAsync]_vars

\* The ids of the writes the store accepted by this step.
Accepted(T, op) ==
    IF last'.op = Resumed(op) /\ last'.type = T /\ ret'.k /= "error" THEN last'.ids ELSE {}

\* C22: with insert and upsert interleaved with a flush at its store calls,
\* an id leaves a write buffer only in the step in which the store has
\* accepted the bulk insert or upsert that contained it.
C22_NoLostWrite ==
    [][\A T \in Names(em) : \A id \in Ids :
          /\ (insertMap[T][id].k /= "none" /\ insertMap'[T][id].k = "none")
                => id \in Accepted(T, "insert")
          /\ (upsertMap[T][id].k /= "none" /\ upsertMap'[T][id].k = "none")
                => id \in Accepted(T, "upsert")]_vars

(***************************************************************************)
(* get interleaved with defer and with other gets at its store calls (the  *)
(* first implementation).  The write buffers are empty here, so the        *)
(* flushes of find and get make no store call.                             *)
(***************************************************************************)
\* `await this.store.find(entityClass, options)` of load's find, or
\* `await this.store.get(entityClass, id)`, made by the get of id.
ReadCall(op, T, ids, path, id) ==
    [k |-> "call", op |-> op, type |-> T, ids |-> ids, rel |-> path, for |-> id]

IssueRead(s, at) ==
    Return([s EXCEPT !.calls = Append(@, Call(s, at.op, at.type, {}, at.ids, at.rel, TRUE))],
           Suspended, FALSE)

\* get once load is over: the cache lookup, and store.get on a miss.
LookupAt(s, T, id) ==
    IF s.cache[T][id].k = "unknown" THEN ReadCall("get", T, {id}, EmptyPath, id) ELSE Idle

Looked(s, T, id) ==
    IF s.cache[T][id].k = "null" THEN Return(s, NotFound, FALSE)
    ELSE IF s.cache[T][id].k = "obj" THEN ReturnCachedV1(s, T, id, FALSE)
    ELSE IssueRead(s, LookupAt(s, T, id))

\* get from its start: load marks the deferred ids and calls find.
GetAt(s, T, id) ==
    IF s.defer[T].ids /= {}
    THEN ReadCall("find", T, s.defer[T].ids,
                  FindPathV1(s, "find", T, WithRelations(s.defer[T].relations)), id)
    ELSE LookupAt(s, T, id)

GetBegun(s, T, id) ==
    IF s.defer[T].ids /= {} THEN IssueRead(MarkDeferredV1(s, T), GetAt(s, T, id))
    ELSE Looked(s, T, id)

\* get(entityClass, id) up to its first store call.
GetBegin(T, id) ==
    /\ Len(awaiting) < MaxAwaiting
    /\ Pending(Self) = {}
    /\ Settle(Op("get", T, <<>>, {id}, NoOptions),
              GetBegun(Self, T, id),
              Then(awaiting, GetAt(Self, T, id)))

\* find resumed: `await this.cache(res)`, then load's
\* `this.deferMap.delete(entityClass.name)`.
FindAnswered(s, c) ==
    [s EXCEPT !.cache = cacheListV1(@, s.md, c.type, StoreFind(s.rows, s.md, c.type, c.ids, c.rel)),
              !.defer[c.type] = EmptyDefer]

\* store.get resumed: `.then((v) => v && this.cache(v))`.
GetAnswered(s, c) ==
    IF s.rows[c.type][c.for].k = "row"
    THEN ReturnCachedV1([s EXCEPT !.cache = cacheV1(@, s.md, c.type,
                                      LoadRow(s.rows, s.md, c.type, c.for, EmptyPath))],
                        c.type, c.for, TRUE)
    ELSE Return(s, NotFound, FALSE)

ReadAnswered(s, c) ==
    IF c.op = "find" THEN Looked(FindAnswered(s, c), c.type, c.for) ELSE GetAnswered(s, c)

ReadRest(s, c) ==
    IF c.op = "find" THEN LookupAt(FindAnswered(s, c), c.type, c.for) ELSE Idle

\* The store answers the j-th suspended read; a rejected call throws in the
\* caller.
ReadResume(j, accepted) ==
    /\ j \in DOMAIN awaiting
    /\ awaiting[j].op \in {"find", "get"}
    /\ Pending(Self) = {}
    /\ IF accepted
       THEN Settle(Op("get.resumed", awaiting[j].type, <<>>, {awaiting[j].for}, NoOptions),
                   ReadAnswered(Self, awaiting[j]),
                   Then(Without(awaiting, j), ReadRest(Self, awaiting[j])))
       ELSE Settle(Op("get.resumed", awaiting[j].type, <<>>, {awaiting[j].for}, NoOptions),
                   Throw(Self, "store"),
                   Without(awaiting, j))

NextDeferAsync ==
    \/ \E T \in Names(em) : \E id \in IdsOf(T) : Defer(T, id, NoOptions)
    \/ \E T \in Names(em) : \E id \in IdsOf(T) : GetBegin(T, id)
    \/ \E j \in 1..MaxAwaiting : \E accepted \in BOOLEAN : ReadResume(j, accepted)

SpecDeferAsync == Init /\ [][NextDeferAsync]_vars

\* C21: no bulk read is issued that contains an id of a bulk read of the
\* same type that is still suspended in the store.
C21_NoDuplicateRead ==
    [][\A c \in DOMAIN calls' : \A j \in DOMAIN awaiting :
          (calls'[c].op = "find" /\ awaiting[j].op = "find" /\ awaiting[j].type = calls'[c].type)
              => awaiting[j].ids \cap calls'[c].ids = {}]_vars

====
